---------------------------- MODULE Spec2Model ----------------------------
(***************************************************************************)
(* A model of the HTML-to-text extractor of TactileWeb                     *)
(* (main/Source/html2text/html2text.cpp): the tag scanner SearchHtmlTag,   *)
(* the driver loop of html2text_c and the std::string wrapper html2text;   *)
(* and of what surrounds it in main/Source/TactileWeb.cpp: the read loop   *)
(* of fetchAndDisplay and the handlers that keep last_url.                 *)
(*                                                                         *)
(* A byte is a one-character string; a C string is the sequence of its     *)
(* bytes before the terminator.  Offsets are the code's 0-based offsets:   *)
(* byte i of html is html[i + 1], and offset Len(html) holds the           *)
(* terminator.  The inputs are ASCII (isalnum and friends in the "C"       *)
(* locale).                                                                *)
(***************************************************************************)
EXTENDS Integers, Sequences, FiniteSets, TLC

(***************************************************************************)
(* Bounds of the model and constants of the program.                       *)
(***************************************************************************)
\* longest input drawn exhaustively from Alphabet
MaxLen == 5

\* char tmp[100], html2text.cpp:81
TmpSize == 100

\* word_length < 100, html2text.cpp:91
WordLimit == 100

\* enum { HTML_FIRST, HTML_MID }, html2text.cpp:19
HTML_FIRST == 0

HTML_MID == 1

NUL == "NUL"

\* the content of a byte malloc returned and nobody wrote
UNINIT == "UNINIT"

\* what a read outside the string and its terminator yields
OOB == "OOB"

Max(a, b) == IF a >= b THEN a ELSE b

(***************************************************************************)
(* <cctype> in the "C" locale.                                             *)
(***************************************************************************)
UpperS == << "A", "B", "C", "D", "E", "F", "G", "H", "I", "J", "K", "L", "M",
             "N", "O", "P", "Q", "R", "S", "T", "U", "V", "W", "X", "Y", "Z" >>

LowerS == << "a", "b", "c", "d", "e", "f", "g", "h", "i", "j", "k", "l", "m",
             "n", "o", "p", "q", "r", "s", "t", "u", "v", "w", "x", "y", "z" >>

DigitS == << "0", "1", "2", "3", "4", "5", "6", "7", "8", "9" >>

Range(s) == { s[k] : k \in 1..Len(s) }

isupper(c) == c \in Range(UpperS)

isalpha(c) == c \in Range(UpperS) \cup Range(LowerS)

isalnum(c) == c \in Range(UpperS) \cup Range(LowerS) \cup Range(DigitS)

tolower(c) ==
    IF c \in Range(UpperS)
    THEN LowerS[CHOOSE k \in 1..26 : UpperS[k] = c]
    ELSE c

(***************************************************************************)
(* Reading the NUL-terminated input.                                       *)
(***************************************************************************)
strlen(html) == Len(html)

At(html, i) ==
    IF i >= 0 /\ i < Len(html) THEN html[i + 1]
    ELSE IF i = Len(html) THEN NUL
    ELSE OOB

\* local_strncmp(html + i, c, 1): 0 when byte i is c
local_strncmp(html, i, c) == IF At(html, i) = c THEN 0 ELSE 1

(***************************************************************************)
(* SearchHtmlTag.  The result carries the returned offset, the mode left   *)
(* in *condition, the depth of the recursion, the highest offset read,     *)
(* whether a frame ran the HTML_MID branch and whether a read went past    *)
(* the terminator (undefined behaviour).                                   *)
(***************************************************************************)
Ret(r, c, rd) ==
    [ret |-> r, condition |-> c, depth |-> 1, maxread |-> rd, mid |-> FALSE,
     fault |-> FALSE]

Fault(c, rd) ==
    [ret |-> -3, condition |-> c, depth |-> 1, maxread |-> rd, mid |-> FALSE,
     fault |-> TRUE]

\* the reads a frame made before the result r was produced
WithRead(r, rd) == [r EXCEPT !.maxread = Max(@, rd)]

\* the frame that made the recursive call and returns its result
Nested(r, rd) ==
    [r EXCEPT !.depth = @ + 1, !.maxread = Max(@, rd)]

\* where "return i" comes after the ++ that follows a '>'
AfterGt(i) == i + 1

RECURSIVE SearchHtmlTag(_, _, _)
RECURSIVE ScanInTag(_, _, _)
RECURSIVE ScanFirst(_, _, _)
RECURSIVE ScanMid(_, _, _)

\* ScanInTag without line 35-36: a '<' right after the '>' is left to the caller
ScanInTag_NoChain(html, i, condition) ==
    IF i > strlen(html) THEN Fault(condition, i)
    ELSE IF local_strncmp(html, i, ">") = 0
    THEN Ret(AfterGt(i), condition, AfterGt(i))
    ELSE IF i = strlen(html)
    THEN Ret(-1, HTML_MID, i)
    ELSE ScanInTag(html, i + 1, condition)

\* ScanInTag without the test i == max of line 41
ScanInTag_NoEnd(html, i, condition) ==
    IF i > strlen(html) THEN Fault(condition, i)
    ELSE IF local_strncmp(html, i, ">") = 0
    THEN IF local_strncmp(html, AfterGt(i), "<") = 0
         THEN Nested(SearchHtmlTag(html, AfterGt(i), condition), AfterGt(i))
         ELSE Ret(AfterGt(i), condition, AfterGt(i))
    ELSE ScanInTag(html, i + 1, condition)

\* the while (1) of HTML_FIRST, entered after its i++
ScanInTag(html, i, condition) ==
    IF i > strlen(html) THEN Fault(condition, i)
    ELSE IF local_strncmp(html, i, ">") = 0
    THEN IF local_strncmp(html, AfterGt(i), "<") = 0
         THEN Nested(SearchHtmlTag(html, AfterGt(i), condition), AfterGt(i))
         ELSE Ret(AfterGt(i), condition, AfterGt(i))
    ELSE IF i = strlen(html)
    THEN Ret(-1, HTML_MID, i)
    ELSE ScanInTag(html, i + 1, condition)

\* the while (i <= max) of HTML_FIRST
ScanFirst(html, i, condition) ==
    IF ~(i <= strlen(html)) THEN Ret(-3, condition, i - 1)
    ELSE IF local_strncmp(html, i, "<") = 0
    THEN WithRead(ScanInTag(html, i + 1, condition), i)
    ELSE IF i + 1 >= strlen(html)
    THEN Ret(-3, condition, i)
    ELSE ScanFirst(html, i + 1, condition)

\* the while (1) of HTML_MID: it has no bound
ScanMid(html, i, condition) ==
    IF i > strlen(html) THEN Fault(condition, i)
    ELSE IF local_strncmp(html, i, ">") = 0
    THEN IF local_strncmp(html, i + 1, "<") = 0
         THEN Nested(SearchHtmlTag(html, i + 1, condition), i + 1)
         ELSE Ret(i + 1, condition, i + 1)
    ELSE ScanMid(html, i + 1, condition)

SearchHtmlTag(html, offset, condition) ==
    IF offset >= strlen(html) THEN Ret(-2, condition, -1)
    ELSE IF condition = HTML_FIRST
    THEN ScanFirst(html, offset, condition)
    ELSE [ScanMid(html, offset, condition) EXCEPT !.mid = TRUE]

(***************************************************************************)
(* The output buffer: malloc(html_len + 1), offsets 0..html_len.  A write  *)
(* outside it is recorded in maxwrite and leaves the buffer alone.         *)
(***************************************************************************)
malloc(n) == [k \in 1..n |-> UNINIT]

Poke(buf, idx, c) ==
    IF idx >= 0 /\ idx < Len(buf) THEN [buf EXCEPT ![idx + 1] = c] ELSE buf

\* the bytes of s written at idx, idx + 1, ...
PokeSeq(buf, idx, s) ==
    [k \in 1..Len(buf) |->
        IF k - 1 >= idx /\ k - 1 < idx + Len(s) THEN s[k - idx] ELSE buf[k]]

\* the C string a buffer holds: its bytes before the first terminator
CStr(buf) ==
    LET stops == { k \in 1..Len(buf) : buf[k] = NUL }
    IN  IF stops = {} THEN buf
        ELSE SubSeq(buf, 1, (CHOOSE k \in stops : \A m \in stops : k <= m) - 1)

(***************************************************************************)
(* One iteration of the loop of html2text_c on the state                   *)
(*   st = [i, result, result_pos, condition, brk, maxwrite, log]           *)
(* log keeps, for every iteration, what it did: a history of the run.      *)
(***************************************************************************)
RECURSIVE RunEnd_OnlyTag(_, _)
\* RunEnd without the test for ' ': a run ends at '<' alone
RunEnd_OnlyTag(html, i) ==
    IF i < strlen(html) /\ local_strncmp(html, i, "<") # 0
    THEN RunEnd_OnlyTag(html, i + 1)
    ELSE i

RECURSIVE RunEnd_OnlySpace(_, _)
\* RunEnd without the test for '<': a run ends at ' ' alone
RunEnd_OnlySpace(html, i) ==
    IF i < strlen(html) /\ local_strncmp(html, i, " ") # 0
    THEN RunEnd_OnlySpace(html, i + 1)
    ELSE i

RECURSIVE RunEnd(_, _)
\* the while of line 86: the end of the run of bytes other than ' ' and '<'
RunEnd(html, i) ==
    IF i < strlen(html) /\ local_strncmp(html, i, " ") # 0
                       /\ local_strncmp(html, i, "<") # 0
    THEN RunEnd(html, i + 1)
    ELSE i

\* TrimFirst that trims nothing
TrimFirst_None(html, first_place, last_place) == first_place

RECURSIVE TrimFirst(_, _, _)
TrimFirst(html, first_place, last_place) ==
    IF first_place < last_place /\ ~isalnum(At(html, first_place))
    THEN TrimFirst(html, first_place + 1, last_place)
    ELSE first_place

RECURSIVE TrimLast_OffByOne(_, _, _)
\* TrimLast testing html[last_place] in place of html[last_place - 1]
TrimLast_OffByOne(html, first_place, last_place) ==
    IF last_place > first_place /\ ~isalnum(At(html, last_place))
    THEN TrimLast_OffByOne(html, first_place, last_place - 1)
    ELSE last_place

RECURSIVE TrimLast(_, _, _)
TrimLast(html, first_place, last_place) ==
    IF last_place > first_place /\ ~isalnum(At(html, last_place - 1))
    THEN TrimLast(html, first_place, last_place - 1)
    ELSE last_place

\* WordFits without the upper limit
WordFits_Unlimited(word_length) == word_length > 0

\* WordFits with <= in place of <
WordFits_Inclusive(word_length) == word_length > 0 /\ word_length <= WordLimit

\* word_length > 0 && word_length < 100
WordFits(word_length) == word_length > 0 /\ word_length < WordLimit

\* LowerFirst that leaves the token as it is
LowerFirst_Never(tmp) == tmp

\* LowerFirst that lowercases every byte of the token
LowerFirst_All(tmp) == [k \in 1..Len(tmp) |-> tolower(tmp[k])]

\* if (isupper(tmp[0]) && isalpha(tmp[0])) tmp[0] = tolower(tmp[0])
LowerFirst(tmp) ==
    IF isupper(tmp[1]) /\ isalpha(tmp[1])
    THEN [tmp EXCEPT ![1] = tolower(tmp[1])]
    ELSE tmp

\* strncpy(tmp, html + first_place, word_length); tmp[word_length] = 0
Stage(html, first_place, word_length) ==
    SubSeq(html, first_place + 1, first_place + word_length) \o << NUL >>

\* NonEmpty that lets an empty word through
NonEmpty_Always(word_length) == TRUE

\* if (word_length > 0), line 98
NonEmpty(word_length) == word_length > 0

\* SkipSeparator that never moves
SkipSeparator_Never(html, i) == i

\* SkipSeparator without the test i < html_len
SkipSeparator_Unchecked(html, i) ==
    IF local_strncmp(html, i, "<") # 0 THEN i + 1 ELSE i

\* if (i < html_len && html[i] != '<') i++
SkipSeparator(html, i) ==
    IF i < strlen(html) /\ local_strncmp(html, i, "<") # 0 THEN i + 1 ELSE i

TextStep(html, st) ==
    LET run_start == st.i
        run_end == RunEnd(html, st.i)
        raw_length == run_end - run_start
        first_place ==
            IF WordFits(raw_length) THEN TrimFirst(html, run_start, run_end)
            ELSE run_start
        last_place ==
            IF WordFits(raw_length) THEN TrimLast(html, first_place, run_end)
            ELSE run_end
        word_length == last_place - first_place
        emit == WordFits(raw_length) /\ NonEmpty(word_length)
        tmp == LowerFirst(Stage(html, first_place, word_length))
        copied == PokeSeq(st.result, st.result_pos, tmp)
        spaced == Poke(copied, st.result_pos + word_length, " ")
        entry == [kind |-> "text", start |-> run_start, end |-> run_end,
                  first |-> first_place, last |-> last_place, emit |-> emit,
                  pos |-> st.result_pos, ret |-> SkipSeparator(html, run_end),
                  depth |-> 0, mid |-> FALSE,
                  maxread |-> IF run_end < strlen(html) THEN run_end
                              ELSE run_end - 1,
                  tmpmax |-> IF emit THEN Len(tmp) - 1 ELSE -1]
    IN  [st EXCEPT
            !.i = SkipSeparator(html, run_end),
            !.result = IF emit THEN spaced ELSE @,
            !.result_pos = IF emit THEN @ + word_length + 1 ELSE @,
            !.maxwrite = IF emit THEN Max(@, st.result_pos + word_length) ELSE @,
            !.log = Append(@, entry)]

\* TagStepTo that resumes after the '<' of an unterminated tag
TagStepTo_SkipsLt(html, st, r) ==
    LET entry == [kind |-> "tag", start |-> st.i, end |-> r.ret,
                  first |-> st.i, last |-> st.i, emit |-> FALSE,
                  pos |-> st.result_pos, ret |-> r.ret,
                  depth |-> r.depth, mid |-> r.mid, maxread |-> r.maxread,
                  tmpmax |-> -1]
    IN  [st EXCEPT
            !.i = IF r.ret = -1 THEN st.i + 1 ELSE r.ret,
            !.brk = r.ret < -1,
            !.fault = r.fault,
            !.log = Append(@, entry)]

\* TagStepTo that, on -1, stays at the '<' and goes round the loop again
TagStepTo_RetriesInTag(html, st, r) ==
    LET entry == [kind |-> "tag", start |-> st.i, end |-> r.ret,
                  first |-> st.i, last |-> st.i, emit |-> FALSE,
                  pos |-> st.result_pos, ret |-> r.ret,
                  depth |-> r.depth, mid |-> r.mid, maxread |-> r.maxread,
                  tmpmax |-> -1]
    IN  [st EXCEPT
            !.i = IF r.ret = -1 THEN st.i ELSE r.ret,
            !.condition = r.condition,
            !.brk = r.ret < -1,
            !.fault = r.fault,
            !.log = Append(@, entry)]

\* i = SearchHtmlTag(html, i, &condition); if (i == -1 || i < -1) break;
\* with r what the scanner did
TagStepTo(html, st, r) ==
    LET entry == [kind |-> "tag", start |-> st.i, end |-> r.ret,
                  first |-> st.i, last |-> st.i, emit |-> FALSE,
                  pos |-> st.result_pos, ret |-> r.ret,
                  depth |-> r.depth, mid |-> r.mid, maxread |-> r.maxread,
                  tmpmax |-> -1]
    IN  [st EXCEPT
            !.i = r.ret,
            !.condition = r.condition,
            !.brk = (r.ret = -1 \/ r.ret < -1),
            !.fault = r.fault,
            !.log = Append(@, entry)]

TagStep(html, st) == TagStepTo(html, st, SearchHtmlTag(html, st.i, st.condition))

\* while (i < (int)html_len) and no break yet
LoopRuns(html, st) == ~st.brk /\ st.i < strlen(html)

DriverStep(html, st) ==
    IF local_strncmp(html, st.i, "<") # 0
    THEN TextStep(html, st)
    ELSE TagStep(html, st)

\* PostProcess without lines 120-122
PostProcess_KeepsSpace(st) ==
    [st EXCEPT !.result = Poke(@, st.result_pos, NUL),
               !.maxwrite = Max(@, st.result_pos)]

\* lines 119-125: drop the trailing space, terminate
PostProcess(st) ==
    LET pos == IF st.result_pos > 0 /\ st.result[st.result_pos] = " "
               THEN st.result_pos - 1
               ELSE st.result_pos
    IN  [st EXCEPT !.result_pos = pos,
                   !.result = Poke(@, pos, NUL),
                   !.maxwrite = Max(@, pos)]

\* Entered with malloc(html_len): no byte for the terminator
Entered_NoTerminatorByte(html) ==
    [i |-> 0, result |-> malloc(strlen(html)), result_pos |-> 0,
     condition |-> HTML_FIRST, brk |-> FALSE, fault |-> FALSE,
     maxwrite |-> -1, log |-> << >>]

\* lines 73-80, once malloc has returned a buffer
Entered(html) ==
    [i |-> 0, result |-> malloc(strlen(html) + 1), result_pos |-> 0,
     condition |-> HTML_FIRST, brk |-> FALSE, fault |-> FALSE,
     maxwrite |-> -1, log |-> << >>]

RECURSIVE RunLoop(_, _)
RunLoop(html, st) ==
    IF LoopRuns(html, st) THEN RunLoop(html, DriverStep(html, st)) ELSE st

\* the text html2text_c returns when malloc succeeds
html2text_c(html) == CStr(PostProcess(RunLoop(html, Entered(html))).result)

(***************************************************************************)
(* The inputs: every string over Alphabet of at most MaxLen bytes, the     *)
(* documents the specification names, and runs around the 100-byte limit.  *)
(***************************************************************************)
Alphabet == { "<", ">", " ", "a", "B", "." }

BoundedInputs == UNION { [1..n -> Alphabet] : n \in 0..MaxLen }

Rep(c, n) == [k \in 1..n |-> c]

NamedInputs ==
    { << "h", "e", "l", "l", "o", " ", "w", "o", "r", "l", "d" >>,
      << "<", "b", ">", "H", "e", "l", "l", "o", "<", "/", "b", ">", " ",
         "W", "o", "r", "l", "d" >>,
      << "<", "a", ">", "<", "b", ">", "t", "e", "x", "t", "<", "/", "b", ">",
         "<", "/", "a", ">" >>,
      << "w", "o", "r", "d", "1", " ", " ", " ", "w", "o", "r", "d", "2" >>,
      << "<", "s", "p", "a", "n", ">" >>,
      << "<", ">", "<", ">", "<", ">", "<", ">", "<", ">", "<", ">", "x" >> }

\* runs of raw length 98..101, of letters alone or with punctuation at an end
LongRuns ==
    { Rep("b", n) : n \in (WordLimit - 2)..(WordLimit + 1) }
        \cup { << "." >> \o Rep("B", WordLimit - 1),
               Rep("b", WordLimit - 1) \o << "." >>,
               << "." >> \o Rep("B", WordLimit - 2),
               Rep(".", WordLimit) }

Before == { << >>, << "A", " " >>, << "<", "a", ">" >>, << "A", "<", ">" >> }

After == { << >>, << " ", "C" >>, << "<", "a", ">", "C" >>, << "<", "C" >> }

LongInputs == { b \o r \o a : b \in Before, r \in LongRuns, a \in After }

Inputs == BoundedInputs \cup NamedInputs \cup LongInputs

(***************************************************************************)
(* The state machine: one call of html2text (html2text.cpp:129), which     *)
(* calls html2text_c; a caller of html2text_c itself sees pc = "returned". *)
(***************************************************************************)
VARIABLES html, arg_null, pc, i, result, result_pos, condition, brk, fault,
          maxwrite, log, ret, wret

\* several calls of html2text_c in progress at once: calls[k] holds the
\* argument, the position, the locals and the result of call k
VARIABLES calls

\* fetchAndDisplay (TactileWeb.cpp:275) from its malloc of html_content on:
\* its position, total_read, the size of html_content, the end of the
\* bytes memcpy wrote, the offset of the terminator, what the last
\* esp_http_client_read returned and the local remaining of the branch
\* that cuts a chunk (-1 while that branch has not run)
VARIABLES fpc, total_read, html_cap, copy_end, term_at, len, remaining

fetchvars ==
    << fpc, total_read, html_cap, copy_end, term_at, len, remaining >>

\* fetchAndDisplay is not running
FetchIdle ==
    /\ fpc = "idle" /\ total_read = 0 /\ html_cap = 0
    /\ copy_end = 0 /\ term_at = -1 /\ len = 0 /\ remaining = -1

\* the application (TactileWeb.cpp:47-48, 96-117, 420-503): whether it is
\* shown, the static arrays last_url and initial_url as C strings, the
\* stored preference "last_url", whether the retry button and the Wi-Fi
\* card exist; the handler that ran last, the argument and the end of the
\* last fetchAndDisplay, and the URL that was loaded last (by loadLastUrl
\* or by a fetchAndDisplay that reached saveLastUrl)
VARIABLES shown, last_url, initial_url, pref, retry_button, wifi_card,
          event, fetched, outcome, loaded

appvars ==
    << shown, last_url, initial_url, pref, retry_button, wifi_card,
       event, fetched, outcome, loaded >>

\* static char last_url[256], initial_url[256]
UrlSize == 256

Http == << "h", "t", "t", "p", ":", "/", "/" >>

Https == << "h", "t", "t", "p", "s", ":", "/", "/" >>

\* "http://example.com"
DefaultUrl ==
    Http \o << "e", "x", "a", "m", "p", "l", "e", ".", "c", "o", "m" >>

\* no preference stored / the preference holds s
NoPref == [has |-> FALSE, val |-> << >>]

Stored(s) == [has |-> TRUE, val |-> s]

\* the application was never shown and nothing is stored
AppIdle ==
    /\ shown = FALSE
    /\ last_url = << >>
    /\ initial_url = DefaultUrl
    /\ pref = NoPref
    /\ retry_button = FALSE
    /\ wifi_card = FALSE
    /\ event = "none"
    /\ fetched = << >>
    /\ outcome = "none"
    /\ loaded = << >>

vars == << html, arg_null, pc, i, result, result_pos, condition, brk, fault,
           maxwrite, log, ret, wret, calls, fpc, total_read, html_cap,
           copy_end, term_at, len, remaining, shown, last_url, initial_url,
           pref, retry_button, wifi_card, event, fetched, outcome, loaded >>

\* what one call of html2text leaves alone
others == << calls, fetchvars, appvars >>

locals == << i, result, result_pos, condition, brk, fault, maxwrite, log >>

NullPtr == [null |-> TRUE, str |-> << >>]

Heap(s) == [null |-> FALSE, str |-> s]

\* the locals of html2text_c as one record, and back
St ==
    [i |-> i, result |-> result, result_pos |-> result_pos,
     condition |-> condition, brk |-> brk, fault |-> fault,
     maxwrite |-> maxwrite, log |-> log]

Become(st) ==
    /\ i' = st.i
    /\ result' = st.result
    /\ result_pos' = st.result_pos
    /\ condition' = st.condition
    /\ brk' = st.brk
    /\ fault' = st.fault
    /\ maxwrite' = st.maxwrite
    /\ log' = st.log

Init ==
    /\ \/ html \in Inputs /\ arg_null = FALSE
       \/ html = << >> /\ arg_null = TRUE
    /\ pc = "call"
    /\ i = 0
    /\ result = << >>
    /\ result_pos = 0
    /\ condition = HTML_FIRST
    /\ brk = FALSE
    /\ fault = FALSE
    /\ maxwrite = -1
    /\ log = << >>
    /\ ret = NullPtr
    /\ wret = << >>
    /\ calls = << >>
    /\ FetchIdle
    /\ AppIdle

\* if (!html) return nullptr;
NullArgument ==
    /\ pc = "call" /\ arg_null
    /\ ret' = NullPtr
    /\ pc' = "returned"
    /\ UNCHANGED << html, arg_null, locals, wret >>
    /\ UNCHANGED others

\* malloc returns 0: if (!result) return nullptr;
MallocFails ==
    /\ pc = "call" /\ ~arg_null
    /\ ret' = NullPtr
    /\ pc' = "returned"
    /\ UNCHANGED << html, arg_null, locals, wret >>
    /\ UNCHANGED others

MallocSucceeds ==
    /\ pc = "call" /\ ~arg_null
    /\ Become(Entered(html))
    /\ pc' = "loop"
    /\ UNCHANGED << html, arg_null, ret, wret >>
    /\ UNCHANGED others

Text ==
    /\ pc = "loop" /\ LoopRuns(html, St)
    /\ local_strncmp(html, i, "<") # 0
    /\ Become(TextStep(html, St))
    /\ UNCHANGED << html, arg_null, pc, ret, wret >>
    /\ UNCHANGED others

\* what the scanner's call on h can produce: its result, or, had it read
\* past the terminator, any result at all
OutcomesOf(h, r) ==
    IF r.fault
    THEN { [r EXCEPT !.ret = v, !.condition = c] :
              v \in (-3)..strlen(h), c \in {HTML_FIRST, HTML_MID} }
    ELSE { r }

Outcomes(r) == OutcomesOf(html, r)

Tag ==
    /\ pc = "loop" /\ LoopRuns(html, St)
    /\ local_strncmp(html, i, "<") = 0
    /\ \E r \in Outcomes(SearchHtmlTag(html, i, condition)) :
           Become(TagStepTo(html, St, r))
    /\ UNCHANGED << html, arg_null, pc, ret, wret >>
    /\ UNCHANGED others

Return ==
    /\ pc = "loop" /\ ~LoopRuns(html, St)
    /\ Become(PostProcess(St))
    /\ ret' = Heap(CStr(result'))
    /\ pc' = "returned"
    /\ UNCHANGED << html, arg_null, wret >>
    /\ UNCHANGED others

\* html2text: std::string() for a null result, std::string(c_result) otherwise
WrapperReturn ==
    /\ pc = "returned" /\ ~arg_null
    /\ wret' = IF ret.null THEN << >> ELSE ret.str
    /\ pc' = "done"
    /\ UNCHANGED << html, arg_null, locals, ret >>
    /\ UNCHANGED others

Next ==
    \/ NullArgument
    \/ MallocFails
    \/ MallocSucceeds
    \/ Text
    \/ Tag
    \/ Return
    \/ WrapperReturn

Spec == Init /\ [][Next]_vars

(***************************************************************************)
(* Several calls of html2text_c whose steps interleave (SpecCalls).  The   *)
(* file has no variable of static storage: i, result, result_pos,          *)
(* condition and tmp are automatic (lines 78-81), and each call has its    *)
(* own input and its own malloc'ed output.                                 *)
(***************************************************************************)
\* how many calls are in progress
NCalls == 2

CallIds == 1..NCalls

ConcInputs ==
    { << >>,
      << "<", "a" >>,
      << "B", "<" >>,
      << ">", "a" >>,
      << "B", " ", "a" >>,
      << "<", "a", ">", "B" >>,
      << "<", ">", "<", "a" >>,
      << "a", "<", "B", ">", ".", " ", "B" >> }

NewCall(h) == [html |-> h, pc |-> "call", st |-> Entered(<< >>), ret |-> NullPtr]

\* StepCall as it would be were condition a static variable: what call k
\* leaves in it is what every other call finds
StepCall_StaticCondition(cs, k, c) ==
    [j \in DOMAIN cs |->
        IF j = k THEN c
        ELSE [cs[j] EXCEPT !.st.condition = c.st.condition]]

\* a step of call k that takes it to c changes what belongs to call k alone
StepCall(cs, k, c) == [cs EXCEPT ![k] = c]

\* the variables of the single call of Spec, parked
SingleIdle ==
    /\ html = << >> /\ arg_null = FALSE
    /\ pc = "idle"
    /\ i = 0 /\ result = << >> /\ result_pos = 0
    /\ condition = HTML_FIRST /\ brk = FALSE /\ fault = FALSE
    /\ maxwrite = -1 /\ log = << >>
    /\ ret = NullPtr /\ wret = << >>

single == << html, arg_null, pc, locals, ret, wret >>

InitCalls ==
    /\ calls \in [CallIds -> { NewCall(h) : h \in ConcInputs }]
    /\ SingleIdle
    /\ FetchIdle
    /\ AppIdle

CallMallocFails ==
    /\ \E k \in CallIds :
          /\ calls[k].pc = "call"
          /\ calls' = StepCall(calls, k,
                 [calls[k] EXCEPT !.pc = "returned", !.ret = NullPtr])
    /\ UNCHANGED << single, fetchvars, appvars >>

CallMallocSucceeds ==
    /\ \E k \in CallIds :
          /\ calls[k].pc = "call"
          /\ calls' = StepCall(calls, k,
                 [calls[k] EXCEPT !.pc = "loop", !.st = Entered(calls[k].html)])
    /\ UNCHANGED << single, fetchvars, appvars >>

CallText ==
    /\ \E k \in CallIds :
          /\ calls[k].pc = "loop" /\ LoopRuns(calls[k].html, calls[k].st)
          /\ local_strncmp(calls[k].html, calls[k].st.i, "<") # 0
          /\ calls' = StepCall(calls, k,
                 [calls[k] EXCEPT !.st = TextStep(calls[k].html, @)])
    /\ UNCHANGED << single, fetchvars, appvars >>

CallTag ==
    /\ \E k \in CallIds :
          /\ calls[k].pc = "loop" /\ LoopRuns(calls[k].html, calls[k].st)
          /\ local_strncmp(calls[k].html, calls[k].st.i, "<") = 0
          /\ \E r \in OutcomesOf(calls[k].html,
                      SearchHtmlTag(calls[k].html, calls[k].st.i,
                                    calls[k].st.condition)) :
                calls' = StepCall(calls, k,
                   [calls[k] EXCEPT !.st = TagStepTo(calls[k].html, @, r)])
    /\ UNCHANGED << single, fetchvars, appvars >>

CallReturn ==
    /\ \E k \in CallIds :
          /\ calls[k].pc = "loop" /\ ~LoopRuns(calls[k].html, calls[k].st)
          /\ calls' = StepCall(calls, k,
                 [calls[k] EXCEPT
                     !.st = PostProcess(@),
                     !.ret = Heap(CStr(PostProcess(calls[k].st).result)),
                     !.pc = "returned"])
    /\ UNCHANGED << single, fetchvars, appvars >>

NextCalls ==
    \/ CallMallocFails
    \/ CallMallocSucceeds
    \/ CallText
    \/ CallTag
    \/ CallReturn

SpecCalls == InitCalls /\ [][NextCalls]_vars

(***************************************************************************)
(* fetchAndDisplay (TactileWeb.cpp:330-383): the page is read in chunks    *)
(* into html_content, cut at max_content_size, terminated and handed to    *)
(* html2text_c.                                                            *)
(***************************************************************************)
\* const int max_content_size = 32768;
MaxContentSize == 32768

\* char buffer[2048];
BufferSize == 2048

\* what esp_http_client_read(client, buffer, sizeof(buffer) - 1) returns:
\* an error, the end of the body, or a chunk of 1 to sizeof(buffer) - 1
\* bytes
ReadLens == { -1, 0, 1, 1024, BufferSize - 1 }

Fits_Always(total, n) == TRUE

\* if (total_read + len <= max_content_size)
Fits(total, n) == total + n <= MaxContentSize

\* memcpy(html_content + at, buffer, n) writes html_content[at .. at+n-1]
memcpy(at, n) == Max(copy_end, at + n)

InitFetch ==
    /\ fpc = "alloc"
    /\ total_read = 0 /\ html_cap = 0 /\ copy_end = 0 /\ term_at = -1
    /\ len = 0 /\ remaining = -1
    /\ SingleIdle
    /\ calls = << >>
    /\ AppIdle

\* malloc(max_content_size + 1) returns null: showError("Out of memory")
FetchMallocFails ==
    /\ fpc = "alloc"
    /\ fpc' = "error"
    /\ UNCHANGED << total_read, html_cap, copy_end, term_at, len, remaining >>
    /\ UNCHANGED << single, calls, appvars >>

FetchMallocSucceeds ==
    /\ fpc = "alloc"
    /\ html_cap' = MaxContentSize + 1
    /\ fpc' = "read"
    /\ UNCHANGED << total_read, copy_end, term_at, len, remaining >>
    /\ UNCHANGED << single, calls, appvars >>

\* one pass of while (total_read < max_content_size)
FetchRead ==
    /\ fpc = "read"
    /\ total_read < MaxContentSize
    /\ \E n \in ReadLens :
        /\ len' = n
        /\ IF n <= 0
           THEN /\ fpc' = "terminate"
                /\ UNCHANGED << total_read, copy_end, remaining >>
           ELSE IF Fits(total_read, n)
           THEN /\ copy_end' = memcpy(total_read, n)
                /\ total_read' = total_read + n
                /\ fpc' = "read"
                /\ UNCHANGED remaining
           ELSE /\ remaining' = MaxContentSize - total_read
                /\ copy_end' = memcpy(total_read, remaining')
                /\ total_read' = MaxContentSize
                /\ fpc' = "terminate"
    /\ UNCHANGED << html_cap, term_at >>
    /\ UNCHANGED << single, calls, appvars >>

\* the loop condition fails
FetchLoopEnd ==
    /\ fpc = "read"
    /\ ~(total_read < MaxContentSize)
    /\ fpc' = "terminate"
    /\ UNCHANGED << total_read, html_cap, copy_end, term_at, len, remaining >>
    /\ UNCHANGED << single, calls, appvars >>

\* html_content[total_read] = '\0'; if (total_read == 0) showError(...)
FetchTerminate ==
    /\ fpc = "terminate"
    /\ term_at' = total_read
    /\ fpc' = IF total_read = 0 THEN "error" ELSE "extract"
    /\ UNCHANGED << total_read, html_cap, copy_end, len, remaining >>
    /\ UNCHANGED << single, calls, appvars >>

\* converted = html2text_c(html_content); a null result is an error
FetchConvert ==
    /\ fpc = "extract"
    /\ \E converted \in { NullPtr.null, Heap(<< >>).null } :
        fpc' = IF converted THEN "error" ELSE "done"
    /\ UNCHANGED << total_read, html_cap, copy_end, term_at, len, remaining >>
    /\ UNCHANGED << single, calls, appvars >>

NextFetch ==
    \/ FetchMallocFails
    \/ FetchMallocSucceeds
    \/ FetchRead
    \/ FetchLoopEnd
    \/ FetchTerminate
    \/ FetchConvert

SpecFetch == InitFetch /\ [][NextFetch]_vars

(***************************************************************************)
(* The application around fetchAndDisplay (TactileWeb.cpp:62-79, 96-117,   *)
(* 275-418, 420-503): the handlers run one at a time on the UI task, each  *)
(* to its end.                                                             *)
(***************************************************************************)
\* strncpy(dst, src, n); dst[n] = '\0': the C string dst holds after it
strncpy(src, n) == IF Len(src) <= n THEN src ELSE SubSeq(src, 1, n)

\* the URLs typed into url_input (no length limit is set on it): nothing,
\* too short, not http, http, https, one that fills last_url exactly and
\* one longer than last_url
LongUrl == Http \o Rep("a", UrlSize)

FullUrl == Http \o Rep("a", UrlSize - 1 - Len(Http))

Urls ==
    { << >>, << "a" >>, << "f", "t", "p", ":", "/", "/", "a" >>,
      Http \o << "a" >>, Https \o << "B" >>, FullUrl, LongUrl }

isValidUrl(url) ==
    /\ Len(url) >= Len(Http)
    /\ \/ SubSeq(url, 1, Len(Http)) = Http
       \/ Len(url) >= Len(Https) /\ SubSeq(url, 1, Len(Https)) = Https

\* what a call of fetchAndDisplay meets: the Wi-Fi state, whether
\* esp_http_client_init and esp_http_client_open succeed, the status code,
\* and how the body goes (html_content cannot be allocated, nothing is
\* read, html2text_c returns null, plain_text cannot be allocated, or all
\* of it succeeds)
StatusCodes == { 199, 200, 299, 300, 404 }

Bodies == { "memory", "empty", "convert", "display", "ok" }

Envs ==
    [wifi : BOOLEAN, client : BOOLEAN, open : BOOLEAN,
     status : StatusCodes, body : Bodies]

\* where fetchAndDisplay(url) ends
Outcome(url, env) ==
    IF Len(url) = 0 THEN "invalid"
    ELSE IF ~env.wifi THEN "wifi"
    ELSE IF ~isValidUrl(url) THEN "format"
    ELSE IF ~env.client THEN "client"
    ELSE IF ~env.open THEN "connect"
    ELSE IF env.status < 200 \/ env.status >= 300 THEN "status"
    ELSE IF env.body # "ok" THEN env.body
    ELSE "loaded"

\* the application as one record, and back
App ==
    [last_url |-> last_url, initial_url |-> initial_url, pref |-> pref,
     retry_button |-> retry_button, wifi_card |-> wifi_card,
     fetched |-> fetched, outcome |-> outcome, loaded |-> loaded]

BecomeApp(a) ==
    /\ last_url' = a.last_url
    /\ initial_url' = a.initial_url
    /\ pref' = a.pref
    /\ retry_button' = a.retry_button
    /\ wifi_card' = a.wifi_card
    /\ fetched' = a.fetched
    /\ outcome' = a.outcome
    /\ loaded' = a.loaded

\* saveLastUrl(url): strncpy into last_url, then the preference is put.
\* When url is last_url itself (a retry), every byte is copied onto itself.
saveLastUrl(a, url) ==
    IF Len(url) > 0
    THEN [a EXCEPT !.last_url = strncpy(url, UrlSize - 1),
                   !.pref = Stored(strncpy(url, UrlSize - 1))]
    ELSE a

\* loadLastUrl(): initial_url is the stored preference or the default,
\* last_url is a copy of it
loadLastUrl(a) ==
    LET got == IF a.pref.has THEN strncpy(a.pref.val, UrlSize - 1)
               ELSE DefaultUrl
    IN  [a EXCEPT !.initial_url = got, !.last_url = got, !.loaded = got]

\* showWifiPrompt(): clearContent(), then the card
showWifiPrompt(a) == [a EXCEPT !.retry_button = FALSE, !.wifi_card = TRUE]

\* showError(msg, url): clearContent(), then the retry button when a
\* non-empty url was passed
showError(a, url) ==
    [a EXCEPT !.retry_button = (Len(url) > 0), !.wifi_card = FALSE]

\* fetchAndDisplay(url), whole
fetchAndDisplay(a, url, env) ==
    LET o == Outcome(url, env)
        b == [a EXCEPT !.fetched = url, !.outcome = o]
    IN  IF o = "invalid" THEN showError(b, << >>)
        ELSE IF o = "wifi" THEN showWifiPrompt(b)
        ELSE IF o # "loaded" THEN showError(b, url)
        ELSE [saveLastUrl([b EXCEPT !.retry_button = FALSE,
                                    !.wifi_card = FALSE], url)
                 EXCEPT !.loaded = url]

\* the idle state of the application, with whatever an earlier run stored
InitApp ==
    /\ shown = FALSE
    /\ last_url = << >>
    /\ initial_url = DefaultUrl
    /\ pref \in { NoPref, Stored(Https \o << "B" >>) }
    /\ retry_button = FALSE
    /\ wifi_card = FALSE
    /\ event = "none"
    /\ fetched = << >>
    /\ outcome = "none"
    /\ loaded = << >>
    /\ SingleIdle
    /\ FetchIdle
    /\ calls = << >>

\* onShow: loadLastUrl(), then the Wi-Fi prompt or the automatic load
onShow ==
    /\ ~shown
    /\ shown' = TRUE
    /\ event' = "show"
    /\ \E env \in Envs :
        LET a == loadLastUrl(App)
        IN  BecomeApp(
                IF ~env.wifi THEN showWifiPrompt(a)
                ELSE IF a.last_url # << >> /\ a.last_url # a.initial_url
                THEN fetchAndDisplay(a, a.last_url, env)
                ELSE a)
    /\ UNCHANGED << single, calls, fetchvars >>

\* onHide: the widgets are gone, the static arrays stay
onHide ==
    /\ shown
    /\ shown' = FALSE
    /\ event' = "hide"
    /\ retry_button' = FALSE
    /\ wifi_card' = FALSE
    /\ UNCHANGED << last_url, initial_url, pref, fetched, outcome, loaded >>
    /\ UNCHANGED << single, calls, fetchvars >>

\* url_input_cb: the text of url_input is submitted
url_input_cb ==
    /\ shown
    /\ event' = "submit"
    /\ \E url \in Urls, env \in Envs :
        BecomeApp(IF Len(url) > 0 THEN fetchAndDisplay(App, url, env)
                  ELSE App)
    /\ UNCHANGED shown
    /\ UNCHANGED << single, calls, fetchvars >>

\* retry_cb: the retry button is clicked
retry_cb ==
    /\ shown
    /\ retry_button
    /\ event' = "retry"
    /\ \E env \in Envs :
        BecomeApp(IF last_url # << >>
                  THEN fetchAndDisplay(App, last_url, env)
                  ELSE App)
    /\ UNCHANGED shown
    /\ UNCHANGED << single, calls, fetchvars >>

NextApp ==
    \/ onShow
    \/ onHide
    \/ url_input_cb
    \/ retry_cb

SpecApp == InitApp /\ [][NextApp]_vars

(***************************************************************************)
(* What the claims speak about.                                            *)
(***************************************************************************)
\* html2text_c has returned a text (malloc succeeded)
Returned == pc \in {"returned", "done"} /\ ~ret.null

\* malloc failed inside html2text_c
AllocationFailed == pc \in {"returned", "done"} /\ ~arg_null /\ ret.null

Entries == 1..Len(log)

Emitted == { k \in Entries : log[k].kind = "text" /\ log[k].emit }

TagEntries == { k \in Entries : log[k].kind = "tag" }

\* the bytes of the returned text that entry k wrote
TokenOut(k) ==
    SubSeq(ret.str, log[k].pos + 1, log[k].pos + log[k].last - log[k].first)

\* the bytes of the input that entry k took its token from
TokenIn(k) == SubSeq(html, log[k].first + 1, log[k].last)

\* the offset of the first '>' after offset s, or -1
FirstGt(s, from) ==
    LET gts == { q \in (from + 1)..(Len(s) - 1) : s[q + 1] = ">" }
    IN  IF gts = {} THEN -1 ELSE CHOOSE q \in gts : \A m \in gts : q <= m

RECURSIVE IsTagConcat(_)
\* s is '<' ... '>' '<' ... '>' ..., each tag ending at its first '>'
IsTagConcat(s) ==
    \/ s = << >>
    \/ /\ s[1] = "<"
       /\ FirstGt(s, 0) >= 0
       /\ IsTagConcat(SubSeq(s, FirstGt(s, 0) + 2, Len(s)))

RECURSIVE Unterminated(_, _)
\* following the adjacent tags from the '<' at offset s: the offset of the
\* '<' that no '>' follows, or -1 when every tag of the run is closed
Unterminated(s, from) ==
    LET q == FirstGt(s, from)
    IN  IF q = -1 THEN from
        ELSE IF At(s, q + 1) = "<" THEN Unterminated(s, q + 1)
        ELSE -1

Prefix(s, n) == SubSeq(s, 1, n)

\* s without its bytes at offsets a .. b - 1
Without(s, a, b) == SubSeq(s, 1, a) \o SubSeq(s, b + 1, Len(s))

HelloWorld ==
    << "<", "b", ">", "H", "e", "l", "l", "o", "<", "/", "b", ">", " ",
       "W", "o", "r", "l", "d" >>

NestedText ==
    << "<", "a", ">", "<", "b", ">", "t", "e", "x", "t", "<", "/", "b", ">",
       "<", "/", "a", ">" >>

(***************************************************************************)
(* C1: the text returned by html2text_c, and by html2text, is never longer *)
(* than the input.                                                         *)
(***************************************************************************)
C1_OutputNoLongerThanInput ==
    /\ Returned => Len(ret.str) <= Len(html)
    /\ pc = "done" => Len(wret) <= Len(html)

\* an input of several tokens whose output is exactly as long as the input
C1_Witness ==
    /\ Returned /\ pc = "done"
    /\ Len(html) >= 3 /\ Cardinality(Emitted) >= 2
    /\ Len(wret) = Len(html)

(***************************************************************************)
(* C2: the returned text does not begin with a space, does not end with a  *)
(* space and has no two spaces in a row.                                   *)
(***************************************************************************)
C2_SingleSpaces ==
    Returned =>
        LET out == ret.str
        IN  /\ out # << >> => out[1] # " " /\ out[Len(out)] # " "
            /\ \A k \in 1..(Len(out) - 1) : ~(out[k] = " " /\ out[k + 1] = " ")

\* two tokens came out of an input that holds two spaces in a row and ends
\* with a space
C2_Witness ==
    /\ Returned
    /\ Cardinality(Emitted) >= 2
    /\ \E k \in 1..(Len(html) - 1) : html[k] = " " /\ html[k + 1] = " "
    /\ html[Len(html)] = " "
    /\ \E k \in 1..Len(ret.str) : ret.str[k] = " "

(***************************************************************************)
(* C3: the returned text holds no '<'; no input byte from a '<' the driver *)
(* met through the first '>' after it is copied; an input made of complete *)
(* tags alone gives the empty text.                                        *)
(***************************************************************************)
C3_TagsRemoved ==
    Returned =>
        /\ \A k \in 1..Len(ret.str) : ret.str[k] # "<"
        /\ \A t \in TagEntries :
              LET q == FirstGt(html, log[t].start)
              IN  q >= 0 =>
                     \A e \in Emitted :
                        log[e].last <= log[t].start \/ log[e].first > q
        /\ (html # << >> /\ IsTagConcat(html)) => ret.str = << >>

\* a token was emitted before a closed tag and another after it
C3_Witness ==
    /\ Returned
    /\ \E t \in TagEntries :
          /\ FirstGt(html, log[t].start) >= 0
          /\ \E e \in Emitted : e < t
          /\ \E e \in Emitted : e > t

(***************************************************************************)
(* C4 as the specification states it: only the first token of the document *)
(* has its leading uppercase letter lowercased, every later token keeps    *)
(* its case, and "<b>Hello</b> World" gives "hello World".                 *)
(***************************************************************************)
C4_OnlyFirstTokenFolded ==
    Returned =>
        /\ \A e \in Emitted :
              TokenOut(e)[1] =
                 IF \A f \in Emitted : e <= f
                 THEN tolower(TokenIn(e)[1])
                 ELSE TokenIn(e)[1]
        /\ html = HelloWorld =>
              ret.str = << "h", "e", "l", "l", "o", " ", "W", "o", "r", "l", "d" >>

(***************************************************************************)
(* C4 amended: every emitted token, the first and the later ones alike,    *)
(* has its leading uppercase letter lowercased, and "<b>Hello</b> World"   *)
(* gives "hello world".                                                    *)
(***************************************************************************)
C4_EveryTokenFolded ==
    Returned =>
        /\ \A e \in Emitted : TokenOut(e)[1] = tolower(TokenIn(e)[1])
        /\ html = HelloWorld =>
              ret.str = << "h", "e", "l", "l", "o", " ", "w", "o", "r", "l", "d" >>

\* "<b>Hello</b> World" has been extracted: two tokens, both with an
\* uppercase first letter in the input
C4_Witness ==
    /\ Returned
    /\ html = HelloWorld
    /\ Cardinality(Emitted) = 2
    /\ \A e \in Emitted : isupper(TokenIn(e)[1])

(***************************************************************************)
(* C5: of every emitted token the first byte is the input byte, lowercased *)
(* when it is an uppercase letter, and every other byte is the input byte. *)
(***************************************************************************)
C5_RestOfTokenVerbatim ==
    Returned =>
        \A e \in Emitted :
            /\ Len(TokenOut(e)) = Len(TokenIn(e))
            /\ \A k \in 1..Len(TokenIn(e)) :
                  TokenOut(e)[k] =
                     IF k = 1 /\ isupper(TokenIn(e)[k])
                     THEN tolower(TokenIn(e)[k])
                     ELSE TokenIn(e)[k]

\* a token that is not the first of the document, with an uppercase first
\* byte and an uppercase later byte
C5_Witness ==
    /\ Returned
    /\ \E e \in Emitted :
          /\ \E f \in Emitted : f < e
          /\ Len(TokenIn(e)) >= 2
          /\ isupper(TokenIn(e)[1])
          /\ \E k \in 2..Len(TokenIn(e)) : isupper(TokenIn(e)[k])

(***************************************************************************)
(* C6: a run the driver scans as text whose raw length is 100 or more is   *)
(* not emitted, whole or in part, and the text returned is the text        *)
(* returned for the input without that run; a run of exactly 99            *)
(* alphanumeric bytes is emitted in full.                                  *)
(***************************************************************************)
RawLength(k) == log[k].end - log[k].start

C6_LongRunDropped ==
    Returned =>
        \A k \in Entries :
            log[k].kind = "text" =>
                /\ RawLength(k) >= 100 =>
                      /\ k \notin Emitted
                      /\ ret.str =
                            html2text_c(Without(html, log[k].start, log[k].end))
                /\ (/\ RawLength(k) = 99
                    /\ \A j \in log[k].start..(log[k].end - 1) :
                          isalnum(At(html, j))) =>
                      /\ k \in Emitted
                      /\ Len(TokenOut(k)) = 99
                      /\ \A j \in 2..99 : TokenOut(k)[j] = At(html, log[k].start + j - 1)

\* a run of 100 bytes or more between two tokens that were emitted
C6_Witness ==
    /\ Returned
    /\ \E k \in Entries :
          /\ log[k].kind = "text" /\ RawLength(k) >= 100
          /\ \E e \in Emitted : e < k
          /\ \E e \in Emitted : e > k
          /\ Len(ret.str) >= 3

(***************************************************************************)
(* C7: extracting the returned text again returns the same text.           *)
(***************************************************************************)
C7_Idempotent == Returned => html2text_c(ret.str) = ret.str

\* the text returned is not the input: a tag was removed and a letter folded
C7_Witness ==
    /\ Returned
    /\ TagEntries # {}
    /\ \E e \in Emitted : isupper(TokenIn(e)[1]) /\ Len(TokenIn(e)) >= 2
    /\ Cardinality(Emitted) >= 2

(***************************************************************************)
(* C8: when a '<' the scan meets has no '>' after it, the call reads       *)
(* nothing past the terminator, returns a text, and that text is the text  *)
(* returned for the input before that '<'; the scan ends at that '<'.      *)
(***************************************************************************)
C8_UnterminatedTagStops ==
    \A t \in TagEntries :
        LET p == Unterminated(html, log[t].start)
        IN  p >= 0 =>
               /\ t = Len(log)
               /\ ~fault
               /\ \A k \in Entries : log[k].maxread <= Len(html)
               /\ \A e \in Emitted : log[e].last <= p
               /\ pc = "loop" => ~LoopRuns(html, St)
               /\ pc # "loop" =>
                     Returned /\ ret.str = html2text_c(Prefix(html, p))

\* text was emitted before the unterminated '<' and a letter follows it
C8_Witness ==
    /\ Returned
    /\ \E t \in TagEntries :
          LET p == Unterminated(html, log[t].start)
          IN  /\ p >= 0
              /\ ret.str # << >>
              /\ \E j \in (p + 1)..(Len(html) - 1) : isalnum(At(html, j))

(***************************************************************************)
(* C9: a call of the scanner at a '<' from which every adjacent tag is     *)
(* closed returns the offset p after the whole run: offset < p <= L, the   *)
(* bytes offset .. p - 1 are complete tags, byte p is not '<'; the driver  *)
(* goes on at p with nothing emitted for the run, and                      *)
(* "<a><b>text</b></a>" gives "text".                                      *)
(***************************************************************************)
C9_AdjacentTagsOneSkip ==
    /\ \A t \in TagEntries :
          Unterminated(html, log[t].start) = -1 =>
              LET p == log[t].ret
              IN  /\ log[t].start < p /\ p <= Len(html)
                  /\ IsTagConcat(SubSeq(html, log[t].start + 1, p))
                  /\ At(html, p) # "<"
                  /\ t < Len(log) =>
                        /\ log[t + 1].kind = "text"
                        /\ log[t + 1].start = p
                        /\ log[t + 1].pos = log[t].pos
    /\ (Returned /\ html = NestedText) => ret.str = << "t", "e", "x", "t" >>

\* one call skipped two tags or more, and a token came after it
C9_Witness ==
    /\ Returned
    /\ \E t \in TagEntries :
          /\ log[t].depth >= 2
          /\ log[t].ret >= 0
          /\ \E e \in Emitted : e > t

(***************************************************************************)
(* C10: when the output buffer cannot be allocated the call returns no     *)
(* text, and the caller of html2text_c and the caller of html2text can     *)
(* each tell this failure from the empty text an empty input gives.        *)
(***************************************************************************)
C10_AllocationFailureVisible ==
    AllocationFailed =>
        /\ ret # Heap(html2text_c(<< >>))
        /\ pc = "done" => wret # html2text_c(<< >>)

(***************************************************************************)
(* C11: for an input without '<' the returned text is the reference        *)
(* tokenization: the input split at spaces, the fields of raw length 0 or  *)
(* 100 and more discarded, each other field trimmed of its leading and     *)
(* trailing non-alphanumeric bytes, the fields left empty discarded, the   *)
(* first byte of each lowercased, the results joined by single spaces.     *)
(***************************************************************************)
MinOf(S) == CHOOSE x \in S : \A y \in S : x <= y

MaxOf(S) == CHOOSE x \in S : \A y \in S : x >= y

\* the field that starts at position k ends before the next space
FieldEnd(s, k) ==
    MinOf({ e \in k..Len(s) : s[e] = " " } \cup { Len(s) + 1 })

RefTrim(f) ==
    LET alnums == { k \in 1..Len(f) : isalnum(f[k]) }
    IN  IF alnums = {} THEN << >>
        ELSE SubSeq(f, MinOf(alnums), MaxOf(alnums))

RefFold(t) == [k \in 1..Len(t) |-> IF k = 1 THEN tolower(t[k]) ELSE t[k]]

RECURSIVE RefTokens(_, _)
RefTokens(s, k) ==
    IF k > Len(s) THEN << >>
    ELSE LET e == FieldEnd(s, k)
             f == SubSeq(s, k, e - 1)
             keep == Len(f) > 0 /\ Len(f) < 100 /\ RefTrim(f) # << >>
         IN  (IF keep THEN << RefFold(RefTrim(f)) >> ELSE << >>)
                \o RefTokens(s, e + 1)

RECURSIVE JoinSpaces(_)
JoinSpaces(ts) ==
    IF ts = << >> THEN << >>
    ELSE IF Len(ts) = 1 THEN ts[1]
    ELSE ts[1] \o << " " >> \o JoinSpaces(Tail(ts))

NoTag(s) == \A k \in 1..Len(s) : s[k] # "<"

C11_PlainTextTokenization ==
    (Returned /\ NoTag(html)) => ret.str = JoinSpaces(RefTokens(html, 1))

\* an input without '<' with several spaces in a row, a field of
\* punctuation alone or punctuation to trim, and two tokens emitted
C11_Witness ==
    /\ Returned /\ NoTag(html)
    /\ \E k \in 1..(Len(html) - 1) : html[k] = " " /\ html[k + 1] = " "
    /\ \E k \in 1..Len(html) : html[k] = "."
    /\ Cardinality(Emitted) >= 2
    /\ ret.str = JoinSpaces(RefTokens(html, 1))

(***************************************************************************)
(* C12: calls of html2text_c share nothing.  However the steps of the      *)
(* calls interleave, and whatever calls ran before, every call starts in   *)
(* mode HTML_FIRST at offset 0, is after each of its steps where it would  *)
(* be had it run alone, faults nowhere, and returns the text it returns    *)
(* alone.                                                                  *)
(***************************************************************************)
RECURSIVE Alone(_, _)
\* the locals of a call on h that ran n iterations of its loop alone
Alone(h, n) == IF n = 0 THEN Entered(h) ELSE DriverStep(h, Alone(h, n - 1))

C12_CallsIndependent ==
    \A k \in DOMAIN calls :
        LET c == calls[k]
        IN  /\ ~c.st.fault
            /\ (c.pc = "loop" /\ c.st.log = << >>) =>
                  c.st.i = 0 /\ c.st.condition = HTML_FIRST
            /\ c.pc = "loop" => c.st = Alone(c.html, Len(c.st.log))
            /\ (c.pc = "returned" /\ ~c.ret.null) =>
                  c.ret.str = html2text_c(c.html)

\* one call has met an unterminated tag and left its mode at HTML_MID, or
\* has returned, while another call is in its loop with a '<' under its
\* cursor
C12_Witness ==
    \E j \in DOMAIN calls, k \in DOMAIN calls :
        /\ j # k
        /\ calls[j].st.condition = HTML_MID
        /\ calls[k].pc = "loop"
        /\ LoopRuns(calls[k].html, calls[k].st)
        /\ At(calls[k].html, calls[k].st.i) = "<"
        /\ calls[k].st.log # << >>

(***************************************************************************)
(* C13: the loop terminates: an iteration either moves the cursor forward, *)
(* a text step by 1 or more and a completed tag skip by 2 or more, or      *)
(* leaves the loop, so the loop runs at most L iterations.                 *)
(***************************************************************************)
C13_LoopProgress ==
    /\ \A k \in Entries :
          \/ log[k].kind = "text" /\ log[k].ret >= log[k].start + 1
          \/ log[k].kind = "tag" /\ log[k].ret >= log[k].start + 2
          \/ log[k].kind = "tag" /\ log[k].ret < 0 /\ k = Len(log) /\ brk
    /\ Len(log) <= Len(html)
    /\ (pc = "loop" /\ Len(log) = Len(html)) => ~LoopRuns(html, St)

\* the call has returned after a tag skip and a text step that moved the
\* cursor by exactly 1
C13_Witness ==
    /\ Returned
    /\ Len(html) >= 3
    /\ \E h \in 1..Len(html) : html[h] = "<"
    /\ TagEntries # {}
    /\ \E k \in Entries : log[k].kind = "text" /\ log[k].ret = log[k].start + 1

(***************************************************************************)
(* C14 as the specification states it: in every state of an extraction,    *)
(* the state after the loop has exited included, 0 <= cursor <= L, and the *)
(* cursor is never smaller than after the previous step.                   *)
(***************************************************************************)
C14_CursorInRange ==
    pc \in {"loop", "returned", "done"} =>
        /\ 0 <= i /\ i <= Len(html)
        /\ \A k \in Entries : log[k].ret >= log[k].start

(***************************************************************************)
(* C14 amended: 0 <= cursor <= L and the cursor never decreases in every   *)
(* state but those that follow a scanner step reporting an unterminated    *)
(* tag: that step stores the scanner's -1 in the cursor and leaves the     *)
(* loop, and the cursor is not used as an offset afterwards.               *)
(***************************************************************************)
C14_CursorInRangeOrSentinel ==
    pc \in {"loop", "returned", "done"} =>
        /\ \/ 0 <= i /\ i <= Len(html)
           \/ /\ i = -1 /\ brk
              /\ log # << >>
              /\ log[Len(log)].kind = "tag"
              /\ Unterminated(html, log[Len(log)].start) >= 0
        /\ \A k \in Entries :
              \/ log[k].ret >= log[k].start
              \/ log[k].ret = -1 /\ k = Len(log) /\ brk

\* the cursor holds -1 after text was scanned and an unterminated tag met
C14_Witness ==
    /\ pc = "loop"
    /\ i = -1
    /\ Emitted # {}
    /\ Len(log) >= 2

(***************************************************************************)
(* C15: every write into the output buffer (the token bytes, the           *)
(* terminator strcpy writes, the separating space, the final terminator)   *)
(* is at an offset in 0..L, inside the L + 1 bytes allocated.              *)
(***************************************************************************)
C15_WritesInsideBuffer ==
    (pc = "loop" \/ Returned) =>
        /\ Len(result) = Len(html) + 1
        /\ maxwrite < Len(result)
        /\ \A e \in Emitted : log[e].pos >= 0

\* the last token ends at the end of the input: its terminator and its
\* space were written at offset L, the last byte of the buffer
C15_Witness ==
    /\ pc = "loop"
    /\ Emitted # {}
    /\ maxwrite = Len(html)
    /\ Cardinality(Emitted) >= 2

(***************************************************************************)
(* C16: every byte of the input the loop and the scanner read, the byte    *)
(* looked at after a '>' included, is at an offset in 0..L, offset L being *)
(* the terminator.                                                         *)
(***************************************************************************)
C16_ReadsInsideInput ==
    /\ ~fault
    /\ \A k \in Entries :
          /\ log[k].start >= 0
          /\ log[k].maxread <= Len(html)
          /\ log[k].kind = "text" => log[k].maxread < Len(html)

\* the scanner looked at the terminator after a '>' that ends the input
C16_Witness ==
    /\ Returned
    /\ Len(html) >= 3
    /\ html[Len(html)] = ">"
    /\ \E t \in TagEntries : log[t].maxread = Len(html) /\ log[t].ret = Len(html)

(***************************************************************************)
(* C17: the scanner is never called, by the driver or by itself, in mode   *)
(* HTML_MID: the mode becomes HTML_MID only in the scanner step that       *)
(* reports an unterminated tag, and the loop exits after that step.        *)
(***************************************************************************)
C17_MidBranchNeverRuns ==
    /\ \A k \in Entries : ~log[k].mid
    /\ (pc = "loop" /\ LoopRuns(html, St)) => condition = HTML_FIRST
    /\ condition = HTML_MID =>
          /\ brk
          /\ log # << >>
          /\ log[Len(log)].kind = "tag" /\ log[Len(log)].ret = -1
          /\ \A k \in 1..(Len(log) - 1) : log[k].ret >= 0

\* the mode is HTML_MID, the loop has been left by break, and bytes of the
\* input were still ahead of the unterminated '<'
C17_Witness ==
    /\ pc = "loop"
    /\ condition = HTML_MID
    /\ ~LoopRuns(html, St)
    /\ log[Len(log)].start + 1 < Len(html)
    /\ Len(log) >= 2

(***************************************************************************)
(* C18: a run of adjacent tags is skipped by a bounded iteration: the      *)
(* chained skips are no more than the bytes that remain, and the depth of  *)
(* the scanner's call stack does not grow with the number of tags of the   *)
(* run (one frame, as for a single tag).                                   *)
(***************************************************************************)
C18_TagRunSkippedIteratively ==
    \A t \in TagEntries :
        /\ log[t].depth <= Len(html) - log[t].start
        /\ log[t].depth <= 1

(***************************************************************************)
(* C19: a text step whose run trims to nothing (a run without an           *)
(* alphanumeric byte, or the empty run at a space) leaves the output       *)
(* buffer and the write position as they are and moves the cursor forward. *)
(***************************************************************************)
\* no byte of the run that starts at offset from is alphanumeric
TrimsToNothing(s, from) ==
    \A j \in from..(Len(s) - 1) :
        (\A m \in from..j : At(s, m) # " " /\ At(s, m) # "<")
            => ~isalnum(At(s, j))

C19_EmptyTokenWritesNothing ==
    [][ (/\ pc = "loop" /\ pc' = "loop"
         /\ Len(log') = Len(log) + 1
         /\ At(html, i) # "<"
         /\ TrimsToNothing(html, i))
        => (/\ result' = result
            /\ result_pos' = result_pos
            /\ maxwrite' = maxwrite
            /\ i' > i) ]_vars

\* after a token was written, a text step has passed over a run of
\* punctuation alone
C19_Witness ==
    /\ pc = "loop"
    /\ Len(log) >= 2
    /\ log[Len(log)].kind = "text"
    /\ log[Len(log)].end > log[Len(log)].start
    /\ TrimsToNothing(html, log[Len(log)].start)
    /\ result_pos > 0

(***************************************************************************)
(* C20: in fetchAndDisplay, whatever chunk lengths the HTTP read returns,  *)
(* total_read never exceeds 32768, every copy into the 32769-byte          *)
(* html_content stays inside it, and the terminator is written at an       *)
(* offset of at most 32768: the extractor receives a terminated buffer of  *)
(* at most 32768 bytes.                                                    *)
(***************************************************************************)
C20_FetchBufferBounded ==
    /\ total_read \in 0..MaxContentSize
    /\ html_cap \in { 0, MaxContentSize + 1 }
    /\ copy_end <= MaxContentSize
    /\ copy_end <= html_cap
    /\ term_at # -1 => term_at \in 0..MaxContentSize /\ term_at < html_cap
    /\ fpc = "extract" =>
          /\ html_cap = MaxContentSize + 1
          /\ term_at = total_read
          /\ copy_end = total_read
          /\ total_read >= 1

\* a chunk that did not fit was cut to what remained, and the full buffer
\* is about to be handed to the extractor
C20_Witness ==
    /\ fpc = "extract"
    /\ remaining >= 1
    /\ remaining < len
    /\ total_read = MaxContentSize
    /\ term_at = MaxContentSize

(***************************************************************************)
(* C21: a fetchAndDisplay that ends in an error or in the Wi-Fi prompt     *)
(* leaves last_url and the stored preference as they were; last_url is     *)
(* written only by loadLastUrl on show and by a fetch that succeeded; so   *)
(* whatever URLs are submitted and however often retry is clicked, the     *)
(* retry handler fetches the URL that was loaded last (successfully, or    *)
(* initially by loadLastUrl).                                              *)
(***************************************************************************)
\* this step is a url_input_cb or retry_cb whose fetch did not succeed
FetchFailed == event' \in { "submit", "retry" } /\ outcome' # "loaded"

\* this step is a url_input_cb or retry_cb whose fetch succeeded
FetchLoaded == event' \in { "submit", "retry" } /\ outcome' = "loaded"

ErrorKeepsLastUrl == FetchFailed => last_url' = last_url /\ pref' = pref

LastUrlWriters ==
    /\ last_url' # last_url => event' = "show" \/ FetchLoaded
    /\ pref' # pref => FetchLoaded

RetryFetchesLoaded ==
    event' = "retry" /\ last_url # << >> => fetched' = loaded

C22_StagingInsideTmp ==
    \A k \in Entries :
        /\ log[k].tmpmax \in -1..(TmpSize - 1)
        /\ log[k].tmpmax # -1 =>
              /\ log[k].kind = "text"
              /\ log[k].end - log[k].start < WordLimit
              /\ log[k].tmpmax = log[k].last - log[k].first

\* a token of 99 bytes was staged: its terminator went to tmp[99]
C22_Witness ==
    \E k \in Entries :
        /\ log[k].kind = "text"
        /\ log[k].emit
        /\ log[k].end - log[k].start = WordLimit - 1
        /\ log[k].tmpmax = TmpSize - 1

=============================================================================
